---- MODULE Spec2Model ----
(***************************************************************************)
(* A model of the OKX side of the trading REST facade: the shared          *)
(* connection object (OKXBaseService), the service methods that forward a   *)
(* request to the vendor SDK and classify its answer, the tenacity retry    *)
(* wrapper around the order-placement methods, and the FastAPI endpoints     *)
(* that turn a service result into an HTTP status.                           *)
(*                                                                           *)
(* The handlers are coroutines without a suspension point (the SDK calls are *)
(* synchronous), so one attempt of one request is one atomic step.  The only *)
(* suspension point is tenacity's sleep between two attempts.                *)
(***************************************************************************)
EXTENDS Integers, Sequences, FiniteSets, Bags, TLC

VARIABLES
    _instance,   \* OKXBaseService._instance: None or a reference into heap
    heap,        \* the OKXBaseService objects ever allocated, by reference
    base,        \* per imported copy of main-trading: its okx_base_service
    services,    \* per imported copy: base_service of each of the 4 services
    mt5_initialized,  \* mt5_base_service.initialized
    req,         \* the request being served, or the last one served
    scheduler,   \* DiscordScheduler.scheduler, the AsyncIOScheduler
    collection,  \* the documents of db.trading_signals, in insertion order
    tasks,       \* the coroutines of the Discord app, by entry point
    grouped,     \* the last call of _group_messages_by_time: input and output
    db           \* DiscordMessageService.db

\* the state of the trading app (main-trading.py)
trading_vars == <<_instance, heap, base, services, mt5_initialized>>

\* the state of the Discord app (main-discord.py)
discord_vars == <<scheduler, collection, tasks, grouped, db>>

vars == <<_instance, heap, base, services, mt5_initialized, req,
          scheduler, collection, tasks, grouped, db>>

-----------------------------------------------------------------------------
(* Values *)

\* Python's None, for references and client objects.  A reference is the
\* index of an object in heap; a client object is named by the reference of
\* the service that built it (the client it replaces is referenced no more).
None == 0

\* a dict key that is missing, an argument that was not given
NoKey == "<absent>"

\* the five SDK clients, in the order connect() builds them
Apis == <<"account_api", "trade_api", "algo_api", "public_api", "market_api">>

ApiSet == {Apis[i] : i \in 1..Len(Apis)}

ApiIndex(a) == CHOOSE i \in 1..Len(Apis) : Apis[i] = a

\* main-trading.py run as a script is imported a second time by uvicorn.run
Modules == {"__main__", "main-trading"}

ServiceNames == {"okx_trading_service", "okx_market_service",
                 "okx_account_service", "okx_algo_service"}

-----------------------------------------------------------------------------
(* OKXBaseService *)

\* the attributes __init__ sets; _initialized is still the class attribute
BlankService ==
    [initialized |-> FALSE, api_key |-> None, apis |-> [a \in ApiSet |-> None]]

\* a seeded fault: __new__ without the singleton test
OKXBaseService_new_always(inst, h) ==
    [inst |-> Len(h) + 1, heap |-> Append(h, BlankService), ref |-> Len(h) + 1]

\* __new__: allocate only when the class holds no instance yet
OKXBaseService_new(inst, h) ==
    IF inst = None
    THEN [inst |-> Len(h) + 1, heap |-> Append(h, BlankService), ref |-> Len(h) + 1]
    ELSE [inst |-> inst, heap |-> h, ref |-> inst]

\* __init__: runs at every construction, skipped once connected
OKXBaseService_init(h, ref) ==
    IF h[ref].initialized
    THEN h
    ELSE [h EXCEPT ![ref].api_key = None,
                   ![ref].apis = [a \in ApiSet |-> None]]

\* what can happen inside connect(): a client constructor raises after `at`
\* clients were built, or all five are built and the get_balance probe answers
ConnectOutcomes ==
    {[kind |-> "ok", at |-> 5], [kind |-> "bad_code", at |-> 5],
     [kind |-> "raise", at |-> 5]}
    \cup {[kind |-> "ctor", at |-> j] : j \in 0..4}

\* connect(): credentials, then the clients one by one, then the probe;
\* _initialized is set only after a probe with code '0'
connect(h, ref, out) ==
    [h EXCEPT ![ref].api_key = 1,
              ![ref].apis = [a \in ApiSet |->
                                IF ApiIndex(a) <= out.at THEN ref ELSE @[a]],
              ![ref].initialized = IF out.kind = "ok" THEN TRUE ELSE @]

\* the answers of the get_balance probe
ProbeOutcomes == {"ok", "bad_code", "raise"}

\* ensure_connected(): False without a connection, else the probe's verdict
ensure_connected(h, ref, probe) ==
    IF ~h[ref].initialized \/ h[ref].apis["account_api"] = None
    THEN FALSE
    ELSE probe = "ok"

\* a seeded fault: a failed probe marks the service as not connected
ensure_connected_state_reset(h, ref, probe) ==
    IF h[ref].initialized /\ probe # "ok"
    THEN [h EXCEPT ![ref].initialized = FALSE]
    ELSE h

\* the service objects after ensure_connected(): it reads _initialized and
\* account_api and assigns no attribute
ensure_connected_state(h, ref, probe) == h

\* shutdown(): drops the clients of a connected service
shutdown(h, ref) ==
    IF h[ref].initialized
    THEN [h EXCEPT ![ref].apis = [a \in ApiSet |-> None],
                   ![ref].initialized = FALSE]
    ELSE h

\* the initialized property of a service: its base service's
initialized(m, s) == heap[services[m][s]].initialized

Loaded == {m \in Modules : base[m] # None}

\* uvicorn serves the app of the copy it imported, the latest one
Serving == IF base["main-trading"] # None THEN "main-trading" ELSE "__main__"

\* MT5BaseService.connect: initialized exactly when the terminal logged in
MT5BaseService_connect(ok) == ok

\* MT5BaseService.shutdown: not initialized afterwards
MT5BaseService_shutdown(was) == FALSE

Status(is_initialized) == IF is_initialized THEN "connected" ELSE "disconnected"

\* a seeded fault: healthy only when both venues are initialized
health_check_both(mt5, okx) ==
    [status |-> IF mt5 /\ okx THEN "healthy" ELSE "unhealthy",
     service |-> "trading",
     services |-> [mt5 |-> Status(mt5), okx |-> Status(okx)]]

\* GET /health of main-trading.py
health_check(mt5, okx) ==
    [status |-> IF mt5 \/ okx THEN "healthy" ELSE "unhealthy",
     service |-> "trading",
     services |-> [mt5 |-> Status(mt5), okx |-> Status(okx)]]

\* the answer GET /health gives in the current state
Health == health_check(mt5_initialized, heap[base[Serving]].initialized)

-----------------------------------------------------------------------------
(* Vendor answers *)

\* the attempts stop_after_attempt(3) allows one call of a decorated method
StopAfterAttempt == 3

\* first entry of the data list of an order answer; id is its ordId (algoId
\* in an algo answer); a key may be missing
Entries ==
    [sCode : {NoKey, "0", "1", "51000"},
     sMsg  : {NoKey, "vendor msg"},
     id    : {NoKey, "", "812"}]

\* first entry of the data list of a close-position answer
CloseEntries ==
    [instId : {NoKey, "BTC-USDT-SWAP"}, posSide : {NoKey, "long", "net"},
     clOrdId : {NoKey, "c1"}, tag : {NoKey}]

\* the first entry of an answer that has none
NoEntry == [missing |-> TRUE]

\* an entry of a query answer either validates against its pydantic model or not
QueryEntries == [parses : BOOLEAN]

\* an SDK call raises, answers nothing (None or {}), answers without a data
\* list (or with an empty one), or answers with data
PayloadsOver(entries) ==
    {[kind |-> "raise", msg |-> NoKey, entry |-> NoEntry],
     [kind |-> "empty", msg |-> NoKey, entry |-> NoEntry]}
    \cup {[kind |-> "nodata", msg |-> g, entry |-> NoEntry] : g \in {NoKey, "vendor error"}}
    \cup {[kind |-> "data", msg |-> NoKey, entry |-> e] : e \in entries}

\* no SDK call was made
NoCall == [kind |-> "nocall", msg |-> NoKey, entry |-> NoEntry]

\* dict.get(key, default)
Get(value, default) == IF value = NoKey THEN default ELSE value

\* str(e) of the exception an SDK call raises
SdkError == "sdk error"

\* str(e) of the AttributeError of a call on a client that is None
NoneTypeError == "'NoneType' object has no attribute"

\* str(KeyError(key))
KeyError(key) == "'" \o key \o "'"

\* error_msg = result.get('msg', 'Unknown error') if result else 'No response'
error_msg(v) ==
    IF v.kind = "empty" THEN "No response" ELSE Get(v.msg, "Unknown error")

-----------------------------------------------------------------------------
(* Response models *)

OKXTradeResponse(ord_id, s_code, s_msg) ==
    [ord_id |-> ord_id, s_code |-> s_code, s_msg |-> s_msg]

OKXAlgoOrderResponse(algo_id, s_code, s_msg) ==
    [algo_id |-> algo_id, s_code |-> s_code, s_msg |-> s_msg]

\* the fields close_position passes to the constructor
CloseOKXPositionResponse(inst_id, pos_side, cl_ord_id, tag) ==
    [inst_id |-> inst_id, pos_side |-> pos_side, cl_ord_id |-> cl_ord_id,
     tag |-> tag]

\* the success property of OKXTradeResponse and OKXAlgoOrderResponse
success(r) == r.s_code = "0"

-----------------------------------------------------------------------------
(* Service methods: one invocation of the method body.  returned(r) is a   *)
(* normal return after `calls` SDK invocations; raised(msg) would be an     *)
(* exception leaving the body.                                               *)

returned(calls, r) == [raised |-> FALSE, calls |-> calls, result |-> r]

NotConnected == "Failed to connect to OKX API"

\* a seeded fault: the rejected branch answers the local failure code "1"
\* and message instead of the venue's
place_order_local_code(conn, client, v) ==
    IF ~conn THEN returned(0, OKXTradeResponse("", "1", NotConnected))
    ELSE IF client = None THEN returned(0, OKXTradeResponse("", "1", NoneTypeError))
    ELSE IF v.kind = "raise" THEN returned(1, OKXTradeResponse("", "1", SdkError))
    ELSE IF v.kind # "data"
    THEN returned(1, OKXTradeResponse("", "1", "Order failed: " \o error_msg(v)))
    ELSE LET e == v.entry IN
         IF e.sCode = NoKey THEN returned(1, OKXTradeResponse("", "1", KeyError("sCode")))
         ELSE IF e.sCode # "0"
         THEN IF e.sMsg = NoKey
              THEN returned(1, OKXTradeResponse("", "1", KeyError("sMsg")))
              ELSE returned(1, OKXTradeResponse(Get(e.id, ""), "1",
                                                "Order failed: " \o e.sMsg))
         ELSE IF e.id = NoKey THEN returned(1, OKXTradeResponse("", "1", KeyError("ordId")))
         ELSE IF e.sMsg = NoKey THEN returned(1, OKXTradeResponse("", "1", KeyError("sMsg")))
         ELSE returned(1, OKXTradeResponse(e.id, e.sCode, e.sMsg))

\* a seeded fault: an exception of the SDK call leaves the method
place_order_uncaught(conn, client, v) ==
    IF ~conn THEN returned(0, OKXTradeResponse("", "1", NotConnected))
    ELSE IF client = None \/ v.kind = "raise"
    THEN [raised |-> TRUE, calls |-> IF client = None THEN 0 ELSE 1,
          result |-> [pending |-> TRUE]]
    ELSE place_order_local_code(conn, client, v)

\* OKXTradingService.place_order
place_order(conn, client, v) ==
    IF ~conn THEN returned(0, OKXTradeResponse("", "1", NotConnected))
    ELSE IF client = None THEN returned(0, OKXTradeResponse("", "1", NoneTypeError))
    ELSE IF v.kind = "raise" THEN returned(1, OKXTradeResponse("", "1", SdkError))
    ELSE IF v.kind # "data"
    THEN returned(1, OKXTradeResponse("", "1", "Order failed: " \o error_msg(v)))
    ELSE LET e == v.entry IN
         IF e.sCode = NoKey THEN returned(1, OKXTradeResponse("", "1", KeyError("sCode")))
         ELSE IF e.sCode # "0"
         THEN IF e.sMsg = NoKey
              THEN returned(1, OKXTradeResponse("", "1", KeyError("sMsg")))
              ELSE returned(1, OKXTradeResponse(Get(e.id, ""), e.sCode, e.sMsg))
         ELSE IF e.id = NoKey THEN returned(1, OKXTradeResponse("", "1", KeyError("ordId")))
         ELSE IF e.sMsg = NoKey THEN returned(1, OKXTradeResponse("", "1", KeyError("sMsg")))
         ELSE returned(1, OKXTradeResponse(e.id, e.sCode, e.sMsg))

\* a seeded fault: the SDK call is made without the connection test
edit_order_unchecked(label, conn, client, hasId, v) ==
    IF ~hasId
    THEN returned(0, OKXTradeResponse("", "1", "Either ordId or clOrdId must be provided"))
    ELSE IF client = None THEN returned(0, OKXTradeResponse("", "1", NoneTypeError))
    ELSE IF v.kind = "raise" THEN returned(1, OKXTradeResponse("", "1", SdkError))
    ELSE IF v.kind # "data"
    THEN returned(1, OKXTradeResponse("", "1", label \o " failed: " \o error_msg(v)))
    ELSE LET e == v.entry IN
         IF e.sCode = NoKey THEN returned(1, OKXTradeResponse("", "1", KeyError("sCode")))
         ELSE IF e.sMsg = NoKey THEN returned(1, OKXTradeResponse("", "1", KeyError("sMsg")))
         ELSE returned(1, OKXTradeResponse(Get(e.id, ""), e.sCode, e.sMsg))

\* OKXTradingService.cancel_order and modify_order (label "Cancel"/"Modify")
edit_order(label, conn, client, hasId, v) ==
    IF ~conn THEN returned(0, OKXTradeResponse("", "1", NotConnected))
    ELSE IF ~hasId
    THEN returned(0, OKXTradeResponse("", "1", "Either ordId or clOrdId must be provided"))
    ELSE IF client = None THEN returned(0, OKXTradeResponse("", "1", NoneTypeError))
    ELSE IF v.kind = "raise" THEN returned(1, OKXTradeResponse("", "1", SdkError))
    ELSE IF v.kind # "data"
    THEN returned(1, OKXTradeResponse("", "1", label \o " failed: " \o error_msg(v)))
    ELSE LET e == v.entry IN
         IF e.sCode = NoKey THEN returned(1, OKXTradeResponse("", "1", KeyError("sCode")))
         ELSE IF e.sMsg = NoKey THEN returned(1, OKXTradeResponse("", "1", KeyError("sMsg")))
         ELSE returned(1, OKXTradeResponse(Get(e.id, ""), e.sCode, e.sMsg))

\* the close request of the model: a long BTC swap position, no cl_ord_id, no tag
CloseRequest ==
    [inst_id |-> "BTC-USDT-SWAP", pos_side |-> "long", cl_ord_id |-> NoKey,
     tag |-> NoKey]

\* the response every failing branch of close_position builds
CloseEcho(r) == CloseOKXPositionResponse(r.inst_id, r.pos_side, r.cl_ord_id, r.tag)

\* OKXTradingService.close_position
close_position(conn, client, r, v) ==
    IF ~conn THEN returned(0, CloseEcho(r))
    ELSE IF client = None THEN returned(0, CloseEcho(r))
    ELSE IF v.kind # "data" THEN returned(1, CloseEcho(r))
    ELSE LET e == v.entry IN
         returned(1, CloseOKXPositionResponse(
                         Get(e.instId, r.inst_id), Get(e.posSide, r.pos_side),
                         Get(e.clOrdId, r.cl_ord_id), Get(e.tag, r.tag)))

\* OKXAlgoService._handle_algo_response; it runs inside the caller's try, so
\* a KeyError it raises ends in the caller's except clause
handle_algo_response(v) ==
    IF v.kind # "data"
    THEN OKXAlgoOrderResponse("", "1", "Algo order failed: " \o error_msg(v))
    ELSE LET e == v.entry IN
         IF e.sCode = NoKey THEN OKXAlgoOrderResponse("", "1", KeyError("sCode"))
         ELSE IF e.sCode # "0"
         THEN IF e.sMsg = NoKey
              THEN OKXAlgoOrderResponse("", "1", KeyError("sMsg"))
              ELSE OKXAlgoOrderResponse(Get(e.id, ""), e.sCode, e.sMsg)
         ELSE IF e.id = NoKey THEN OKXAlgoOrderResponse("", "1", KeyError("algoId"))
         ELSE IF e.sMsg = NoKey THEN OKXAlgoOrderResponse("", "1", KeyError("sMsg"))
         ELSE OKXAlgoOrderResponse(e.id, e.sCode, e.sMsg)

\* OKXAlgoService.place_tp_sl_order, place_trigger_order,
\* place_trailing_stop_order, place_iceberg_order, place_twap_order
place_algo_order(conn, client, v) ==
    IF ~conn THEN returned(0, OKXAlgoOrderResponse("", "1", NotConnected))
    ELSE IF client = None THEN returned(0, OKXAlgoOrderResponse("", "1", NoneTypeError))
    ELSE IF v.kind = "raise" THEN returned(1, OKXAlgoOrderResponse("", "1", SdkError))
    ELSE returned(1, handle_algo_response(v))

\* OKXAlgoService.cancel_algo_order and amend_algo_order
edit_algo_order(conn, client, hasId, v) ==
    IF ~conn THEN returned(0, OKXAlgoOrderResponse("", "1", NotConnected))
    ELSE IF ~hasId
    THEN returned(0, OKXAlgoOrderResponse("", "1",
                         "Either algoId or algoClOrdId must be provided"))
    ELSE IF client = None THEN returned(0, OKXAlgoOrderResponse("", "1", NoneTypeError))
    ELSE IF v.kind = "raise" THEN returned(1, OKXAlgoOrderResponse("", "1", SdkError))
    ELSE returned(1, handle_algo_response(v))

\* get_orders, get_algo_orders, get_balances, get_positions, get_all_tickers,
\* get_klines: the list of the entries that parse, [] on every failure
list_query(conn, client, v) ==
    IF ~conn THEN returned(0, [items |-> 0])
    ELSE IF client = None THEN returned(0, [items |-> 0])
    ELSE IF v.kind # "data" THEN returned(1, [items |-> 0])
    ELSE returned(1, [items |-> IF v.entry.parses THEN 1 ELSE 0])

\* get_order_details, get_algo_order_details, get_ticker, get_account_info:
\* the parsed first entry, None on every failure
item_query(conn, client, hasId, v) ==
    IF ~conn THEN returned(0, [item |-> NoKey])
    ELSE IF ~hasId THEN returned(0, [item |-> NoKey])
    ELSE IF client = None THEN returned(0, [item |-> NoKey])
    ELSE IF v.kind # "data" THEN returned(1, [item |-> NoKey])
    ELSE returned(1, [item |-> IF v.entry.parses THEN "item" ELSE NoKey])

-----------------------------------------------------------------------------
(* Operations *)

TradeOps == {"place_order", "cancel_order", "modify_order"}

AlgoPlaceOps == {"place_tp_sl_order", "place_trigger_order",
                 "place_trailing_stop_order", "place_iceberg_order",
                 "place_twap_order"}

AlgoEditOps == {"cancel_algo_order", "amend_algo_order"}

ListOps == {"get_orders", "get_algo_orders", "get_balances", "get_positions",
            "get_all_tickers", "get_klines"}

ItemOps == {"get_order_details", "get_algo_order_details", "get_ticker",
            "get_account_info"}

Ops == TradeOps \cup {"close_position"} \cup AlgoPlaceOps \cup AlgoEditOps
       \cup ListOps \cup ItemOps

\* the operations whose request names its target by one of two optional ids
IdOps == {"cancel_order", "modify_order", "get_order_details",
          "get_algo_order_details"} \cup AlgoEditOps

\* the methods that carry the @retry decorator
RetryWrapped == {"place_order", "close_position"} \cup AlgoPlaceOps

\* the service object an endpoint is bound to
ServiceOf(op) ==
    IF op \in TradeOps \cup {"close_position", "get_orders", "get_order_details"}
    THEN "okx_trading_service"
    ELSE IF op \in AlgoPlaceOps \cup AlgoEditOps
                   \cup {"get_algo_orders", "get_algo_order_details"}
    THEN "okx_algo_service"
    ELSE IF op \in {"get_balances", "get_positions", "get_account_info"}
    THEN "okx_account_service"
    ELSE "okx_market_service"

\* the SDK client a method calls
ClientOf(op) ==
    CASE ServiceOf(op) = "okx_trading_service" -> "trade_api"
      [] ServiceOf(op) = "okx_algo_service" -> "algo_api"
      [] ServiceOf(op) = "okx_account_service" -> "account_api"
      [] OTHER -> "market_api"

OrderPayloads == PayloadsOver(Entries)

ClosePayloads == PayloadsOver(CloseEntries)

QueryPayloads == PayloadsOver(QueryEntries)

\* the answers the SDK call of an operation can give
Payloads(op) ==
    IF op \in TradeOps \cup AlgoPlaceOps \cup AlgoEditOps THEN OrderPayloads
    ELSE IF op = "close_position" THEN ClosePayloads
    ELSE QueryPayloads

\* one invocation of the body of the method behind op
Body(op, conn, client, hasId, v) ==
    CASE op = "place_order" -> place_order(conn, client, v)
      [] op = "cancel_order" -> edit_order("Cancel", conn, client, hasId, v)
      [] op = "modify_order" -> edit_order("Modify", conn, client, hasId, v)
      [] op = "close_position" -> close_position(conn, client, CloseRequest, v)
      [] op \in AlgoPlaceOps -> place_algo_order(conn, client, v)
      [] op \in AlgoEditOps -> edit_algo_order(conn, client, hasId, v)
      [] op \in ListOps -> list_query(conn, client, v)
      [] OTHER -> item_query(conn, client, hasId, v)

-----------------------------------------------------------------------------
(* The retry decorator *)

\* a seeded fault: a retry policy applied to every method, on a failed result
ShouldRetry_any_failure(op, out, attempt) ==
    /\ attempt < StopAfterAttempt
    /\ \/ out.raised
       \/ "s_code" \in DOMAIN out.result /\ ~success(out.result)

\* @retry(stop=stop_after_attempt(3), ...): tenacity calls a decorated method
\* again after an attempt that raised, while attempts remain
ShouldRetry(op, out, attempt) ==
    /\ op \in RetryWrapped
    /\ out.raised
    /\ attempt < StopAfterAttempt

\* retry_error_callback: what handle_retry_error answers once the attempts are
\* used up, a typed failure
handle_retry_error(op) ==
    IF op \in AlgoPlaceOps
    THEN OKXAlgoOrderResponse("", "1", "Operation failed after max retries")
    ELSE OKXTradeResponse("", "1", "Operation failed after max retries")

\* what the caller of the method gets after the last attempt
Outcome(op, out) ==
    IF out.raised /\ op \in RetryWrapped
    THEN [raised |-> FALSE, calls |-> out.calls, result |-> handle_retry_error(op)]
    ELSE out

-----------------------------------------------------------------------------
(* Endpoints *)

\* the body of a response that is an error
NoBody == [error |-> TRUE]

HTTPException(status_code, detail) ==
    [status |-> status_code, detail |-> detail, body |-> NoBody]

OK(body) == [status |-> 200, detail |-> NoKey, body |-> body]

\* str() of an HTTPException: "<status_code>: <detail>"
StrHTTPException(e) == ToString(e.status) \o ": " \o e.detail

\* except Exception as e: raise HTTPException(status_code=500, detail=str(e)),
\* around the whole handler body: it also catches the handler's own
\* HTTPException
CatchAll(e) == HTTPException(500, StrHTTPException(e))

\* the same clause for an exception that left the service method
ServerError(msg) == HTTPException(500, msg)

\* routers: place-order, cancel-order, modify-order and the algo endpoints
TradeEndpoint(out) ==
    IF out.raised THEN ServerError(SdkError)
    ELSE IF ~success(out.result)
    THEN CatchAll(HTTPException(400, out.result.s_msg))
    ELSE OK(out.result)

\* router: close-position, no try and no test of the result
CloseEndpoint(out) ==
    IF out.raised THEN ServerError(SdkError) ELSE OK(out.result)

\* routers of the list queries
ListEndpoint(out) ==
    IF out.raised THEN ServerError(SdkError)
    ELSE OK([status |-> "success", data |-> out.result.items,
             count |-> out.result.items])

\* the detail of the 404 of a lookup
NotFound(op) ==
    CASE op = "get_order_details" -> "Order not found"
      [] op = "get_algo_order_details" -> "Algo order not found"
      [] op = "get_ticker" -> "Ticker data not found for BTC-USDT"
      [] OTHER -> "Account information not found"

\* routers of the lookups; the test of the ids is outside the try
ItemEndpoint(op, hasId, out) ==
    IF ~hasId THEN HTTPException(400, "Either ord_id or cl_ord_id must be provided")
    ELSE IF out.raised THEN ServerError(SdkError)
    ELSE IF out.result.item = NoKey THEN CatchAll(HTTPException(404, NotFound(op)))
    ELSE OK([status |-> "success", data |-> out.result.item])

Endpoint(op, hasId, out) ==
    IF op \in TradeOps \cup AlgoPlaceOps \cup AlgoEditOps THEN TradeEndpoint(out)
    ELSE IF op = "close_position" THEN CloseEndpoint(out)
    ELSE IF op \in ListOps THEN ListEndpoint(out)
    ELSE ItemEndpoint(op, hasId, out)

-----------------------------------------------------------------------------
(* Requests *)

\* the result of a request that has none yet
NoResult == [pending |-> TRUE]

NoRequest ==
    [op |-> "none", state |-> "done", attempt |-> 0, calls |-> 0,
     hasId |-> TRUE, conn |-> FALSE, vendor |-> NoCall, result |-> NoResult,
     http |-> OK(NoBody)]

-----------------------------------------------------------------------------
(* The Discord app: fetch, save_to_database, the fetch endpoint *)

\* what fetch_discord_messages meets: a missing credential (its ValueError is
\* caught by its own except clause), a failing HTTP request, a status other
\* than 200, no message of the target user, or messages
DiscordOutcomes == {"missing_credentials", "request_raises", "bad_status",
                    "no_user_messages", "messages"}

\* message_groups of a DiscordData: the groups, each the message_ids of its
\* messages; a message is in one group
DataSet == {<<{"m1"}>>, <<{"m1", "m2"}>>, <<{"m2"}, {"m1"}>>}

\* message_groups where there is no DiscordData
NoData == <<>>

\* DiscordMessageService.fetch_discord_messages: DiscordData or None
fetch_discord_messages(d, data) ==
    [data |-> IF d = "messages" THEN "DiscordData" ELSE NoKey,
     message_groups |-> IF d = "messages" THEN data ELSE NoData]

\* POST /messages/fetch: its 404 is raised inside the try; the except
\* ValueError clause does not match it, the except Exception clause does.
\* The result of save_to_database does not change the answer.
discord_fetch_endpoint(data) ==
    IF data.data = NoKey
    THEN HTTPException(500, "Internal server error")
    ELSE OK(data)

\* save_to_database: new_message_ids, the message_ids of all groups
new_message_ids(data) == UNION {data[i] : i \in 1..Len(data)}

\* the message_ids stored in the documents of the collection
stored_ids(coll) == UNION BagToSet(coll)

\* save_to_database: existing_ids, the answer of the aggregation pipeline
aggregate(coll, ids) == stored_ids(coll) \cap ids

\* a seeded fault: the messages of a group are not filtered
filtered_messages_all(group, existing_ids) == group

\* save_to_database: filtered_messages of a group
filtered_messages(group, existing_ids) == group \ existing_ids

\* save_to_database: the first group from index k on that has new messages,
\* Len(data) + 1 when there is none
next_group(data, existing_ids, k) ==
    IF \E i \in k..Len(data) : filtered_messages(data[i], existing_ids) # {}
    THEN CHOOSE i \in k..Len(data) :
            /\ filtered_messages(data[i], existing_ids) # {}
            /\ \A j \in k..(i - 1) : filtered_messages(data[j], existing_ids) = {}
    ELSE Len(data) + 1

\* collection.insert_one(group_doc): one more document with these messages
insert_one(coll, messages) == coll (+) SetToBag({messages})

\* save_to_database from its first group_doc on, when no insert fails
RECURSIVE insert_groups(_, _, _, _)
insert_groups(coll, data, existing_ids, k) ==
    LET i == next_group(data, existing_ids, k)
    IN IF i > Len(data) THEN coll
       ELSE insert_groups(insert_one(coll, filtered_messages(data[i], existing_ids)),
                          data, existing_ids, i + 1)

\* save_to_database run with no other coroutine between its awaits, when no
\* database call fails: the collection afterwards
save_to_database(coll, data) ==
    insert_groups(coll, data, aggregate(coll, new_message_ids(data)), 1)

\* the entry points that fetch and save: the scheduled job, run_job_now, and
\* the endpoint POST /messages/fetch
TaskNames == {"job", "run_job_now", "fetch"}

\* a coroutine that is not running
Idle ==
    [pc |-> "idle", data |-> NoData, existing_ids |-> {}, k |-> 0,
     saved_groups |-> 0, saved |-> "none", raised |-> FALSE]

\* a seeded fault: False when no group was saved
save_result_false_when_none_saved(saved_groups) ==
    IF saved_groups > 0 THEN "True" ELSE "False"

\* save_to_database: `if saved_groups > 0: ... return True else: ... return True`
save_result(saved_groups) ==
    IF saved_groups > 0 THEN "True" ELSE "True"

\* a coroutine whose save_to_database has returned: `saved` of its caller
Returned(saved) == [Idle EXCEPT !.saved = saved]

\* a coroutine inside save_to_database, suspended in
\* `await self.initialize_db()`; self.db is assigned before its first await
AtInitializeDb(data) ==
    [pc |-> "initialize_db", data |-> data, existing_ids |-> {}, k |-> 0,
     saved_groups |-> 0, saved |-> "none", raised |-> FALSE]

\* a coroutine inside save_to_database, suspended at
\* `await collection.aggregate(pipeline).to_list(1)`
AtAggregate(data) ==
    [pc |-> "aggregate", data |-> data, existing_ids |-> {}, k |-> 0,
     saved_groups |-> 0, saved |-> "none", raised |-> FALSE]

\* a coroutine suspended at `await collection.insert_one(group_doc)` for
\* group k, or returned True when there is no group left to insert
AfterGroup(t, existing_ids, k, saved_groups) ==
    LET i == next_group(t.data, existing_ids, k)
    IN IF i > Len(t.data)
       THEN Returned(save_result(saved_groups))
       ELSE [pc |-> "insert", data |-> t.data, existing_ids |-> existing_ids,
             k |-> i, saved_groups |-> saved_groups, saved |-> "none",
             raised |-> FALSE]

\* the answer of POST /messages/fetch for the DiscordData it fetched
FetchResponse(d, data) ==
    LET discord_data == fetch_discord_messages(d, data)
    IN [NoRequest EXCEPT !.op = "fetch_discord_messages",
                         !.vendor = [kind |-> d, msg |-> NoKey, entry |-> NoEntry],
                         !.result = discord_data,
                         !.http = discord_fetch_endpoint(discord_data)]

-----------------------------------------------------------------------------
(* _group_messages_by_time *)

\* the most messages fetch_discord_messages hands to the grouping in the model
\* (the code hands over at most 10, user_messages[:10])
MaxMessages == 4

\* the timestamps of the fetched messages, in seconds
Timestamps == {0, 240, 300, 301, 540, 900}

\* the raw message at position i of a fetch: its id and timestamp
RawMessage(i, ts) == [id |-> i, timestamp |-> ts]

\* top_10_messages: the messages of the target user as fetch_discord_messages
\* passes them on, sorted by timestamp, newest first
MessageLists ==
    UNION {{[i \in 1..n |-> RawMessage(i, f[i])] :
              f \in {g \in [1..n -> Timestamps] :
                        \A i \in 1..(n - 1) : g[i] >= g[i + 1]}} :
           n \in 0..MaxMessages}

\* `time_diff <= 5`
WithinMinutes == 5

\* abs((last_timestamp - current_timestamp).total_seconds() / 60), kept in
\* seconds: the code divides by 60 and compares with 5, the model compares
\* the seconds with 5 * 60
total_seconds(last_timestamp, current_timestamp) ==
    IF last_timestamp >= current_timestamp
    THEN last_timestamp - current_timestamp
    ELSE current_timestamp - last_timestamp

\* timestamp.strftime("%d/%m/%Y %H:%M"): the timestamp cut to the minute
strftime(timestamp) == timestamp \div 60

\* _create_message_group: the group's id, the formatted time of its first
\* message, and a DiscordMessage (here its message_id) per raw message
_create_message_group(group_id, group_messages) ==
    [group_id |-> group_id,
     timestamp |-> strftime(group_messages[1].timestamp),
     messages |-> [j \in 1..Len(group_messages) |-> group_messages[j].id]]

\* a seeded fault: group ids counted from 0
close_group_from_zero(message_groups, current_group) ==
    Append(message_groups,
           _create_message_group(Len(message_groups), current_group))

\* message_groups.append(self._create_message_group(len(message_groups) + 1,
\* current_group))
close_group(message_groups, current_group) ==
    Append(message_groups,
           _create_message_group(Len(message_groups) + 1, current_group))

\* the loop of _group_messages_by_time from message i on, and the statement
\* after it
RECURSIVE group_loop(_, _, _, _)
group_loop(messages, i, current_group, message_groups) ==
    IF i > Len(messages)
    THEN IF current_group # <<>>
         THEN close_group(message_groups, current_group)
         ELSE message_groups
    ELSE IF i = 1
    THEN group_loop(messages, 2, <<messages[1]>>, message_groups)
    ELSE LET last == current_group[Len(current_group)]
         IN IF total_seconds(last.timestamp, messages[i].timestamp)
                  <= WithinMinutes * 60
            THEN group_loop(messages, i + 1, Append(current_group, messages[i]),
                            message_groups)
            ELSE group_loop(messages, i + 1, <<messages[i]>>,
                            close_group(message_groups, current_group))

\* DiscordMessageService._group_messages_by_time
_group_messages_by_time(messages) == group_loop(messages, 1, <<>>, <<>>)

\* no call of _group_messages_by_time yet
NotGrouped == [called |-> FALSE, messages |-> <<>>, message_groups |-> <<>>]

-----------------------------------------------------------------------------
(* DiscordScheduler and its AsyncIOScheduler *)

\* IntervalTrigger(minutes=1)
IntervalMinutes == 1

\* self.job_id
JobId == "discord_message_fetch"

\* the job start_scheduler adds
FetchJob == [id |-> JobId, func |-> "_fetch_messages_job", minutes |-> IntervalMinutes]

\* AsyncIOScheduler(): not running, no job; since counts the minutes since the
\* start or the last firing
NewScheduler == [running |-> FALSE, pending |-> <<>>, jobs |-> <<>>, since |-> 0]

\* a seeded fault: a job store that takes a second job with the same id
real_add_job_append(jobs, job, replace_existing) == Append(jobs, job)

\* the job store at add_job: a job with the same id is replaced when
\* replace_existing is set (ConflictingIdError otherwise)
real_add_job(jobs, job, replace_existing) ==
    IF \E i \in 1..Len(jobs) : jobs[i].id = job.id
    THEN IF replace_existing
         THEN [i \in 1..Len(jobs) |-> IF jobs[i].id = job.id THEN job ELSE jobs[i]]
         ELSE jobs
    ELSE Append(jobs, job)

\* scheduler.add_job(..., replace_existing=True): into the job store of a
\* running scheduler, else onto the list start() reads
add_job(sch, job) ==
    IF sch.running
    THEN [sch EXCEPT !.jobs = real_add_job(@, job, TRUE)]
    ELSE [sch EXCEPT !.pending = Append(@, job)]

\* the pending jobs, added to the job store one by one
RECURSIVE add_pending(_, _)
add_pending(jobs, pending) ==
    IF pending = <<>> THEN jobs
    ELSE add_pending(real_add_job(jobs, Head(pending), TRUE), Tail(pending))

\* start_scheduler: add_job, then scheduler.start(), which raises
\* SchedulerAlreadyRunningError on a running scheduler
start_scheduler(sch) ==
    LET added == add_job(sch, FetchJob)
    IN IF added.running THEN added
       ELSE [running |-> TRUE, pending |-> <<>>,
             jobs |-> add_pending(added.jobs, added.pending), since |-> 0]

\* stop_scheduler: scheduler.shutdown(wait=True) of a running scheduler; the
\* job store is emptied
stop_scheduler(sch) ==
    IF sch.running THEN [sch EXCEPT !.running = FALSE, !.jobs = <<>>] ELSE sch

-----------------------------------------------------------------------------
(* Actions *)

\* module-level code of main-trading.py, lines 46-50, run by one more import
LoadModule(m) ==
    /\ base[m] = None
    /\ req.state = "done"
    /\ LET n == OKXBaseService_new(_instance, heap)
       IN /\ _instance' = n.inst
          /\ heap' = OKXBaseService_init(n.heap, n.ref)
          /\ base' = [base EXCEPT ![m] = n.ref]
          /\ services' = [services EXCEPT ![m] = [s \in ServiceNames |-> n.ref]]
    /\ UNCHANGED <<mt5_initialized, req, discord_vars>>

\* lifespan startup: okx_base_service.connect(...)
Connect(out) ==
    /\ req.state = "done"
    /\ heap' = connect(heap, base[Serving], out)
    /\ UNCHANGED <<_instance, base, services, mt5_initialized, req, discord_vars>>

\* lifespan shutdown: okx_base_service.shutdown()
Shutdown ==
    /\ heap' = shutdown(heap, base[Serving])
    /\ UNCHANGED <<_instance, base, services, mt5_initialized, req, discord_vars>>

\* lifespan startup: mt5_base_service.connect(...)
ConnectMT5(ok) ==
    /\ req.state = "done"
    /\ mt5_initialized' = MT5BaseService_connect(ok)
    /\ UNCHANGED <<_instance, heap, base, services, req, discord_vars>>

\* lifespan shutdown: mt5_base_service.shutdown(), of an initialized service
ShutdownMT5 ==
    /\ mt5_initialized
    /\ mt5_initialized' = MT5BaseService_shutdown(mt5_initialized)
    /\ UNCHANGED <<_instance, heap, base, services, req, discord_vars>>

\* a request to GET /health
HealthCheck ==
    /\ req.state = "done"
    /\ req' = [NoRequest EXCEPT !.op = "health_check", !.http = OK(Health)]
    /\ UNCHANGED <<trading_vars, discord_vars>>

\* one attempt of a request to an OKX endpoint: the first one, or the next one
\* of a request tenacity is sleeping on.  The pre-check of the ids of a lookup
\* answers before the service is called.  The probe is made only on a
\* connected service and the SDK call only after a good probe: the answers
\* of calls that are not made are fixed to the first of their set.
Serve(op, hasId, probe, v) ==
    LET ref == services[Serving][ServiceOf(op)]
        conn == ensure_connected(heap, ref, probe)
    IN
    /\ hasId \/ op \in IdOps
    /\ probe = "ok" \/ heap[ref].initialized
    /\ v.kind = "raise" \/ (conn /\ hasId)
    /\ \/ req.state = "done"
       \/ req.state = "waiting" /\ req.op = op /\ req.hasId = hasId
    /\ LET skip == op \in ItemOps /\ ~hasId
           out == Body(op, conn, heap[ref].apis[ClientOf(op)], hasId, v)
           attempt == IF req.state = "waiting" THEN req.attempt + 1 ELSE 1
           calls == (IF req.state = "waiting" THEN req.calls ELSE 0) + out.calls
           final == Outcome(op, out)
       IN req' =
            IF skip
            THEN [NoRequest EXCEPT !.op = op, !.hasId = hasId,
                                   !.http = Endpoint(op, hasId, out)]
            ELSE IF ShouldRetry(op, out, attempt)
            THEN [NoRequest EXCEPT !.op = op, !.state = "waiting",
                                   !.attempt = attempt, !.calls = calls,
                                   !.hasId = hasId, !.conn = conn,
                                   !.vendor = IF out.calls = 1 THEN v ELSE NoCall]
            ELSE [op |-> op, state |-> "done", attempt |-> attempt,
                  calls |-> calls, hasId |-> hasId, conn |-> conn,
                  vendor |-> IF out.calls = 1 THEN v ELSE NoCall,
                  result |-> final.result,
                  http |-> Endpoint(op, hasId, final)]
    /\ heap' = ensure_connected_state(heap, ref, probe)
    /\ UNCHANGED <<_instance, base, services, mt5_initialized, discord_vars>>

\* the coroutine of an entry point after its fetch: suspended in
\* save_to_database when there is DiscordData, finished otherwise
\* a seeded fault: save_to_database is called whatever the fetch returned
Begin_always_save(t, d, data) ==
    IF db = None THEN AtInitializeDb(data) ELSE AtAggregate(data)

\* Without DiscordData the job and run_job_now log a warning and end; the
\* endpoint ends by raising its HTTPException.
Begin(t, d, data) ==
    IF d = "messages"
    THEN IF db = None THEN AtInitializeDb(data) ELSE AtAggregate(data)
    ELSE [Idle EXCEPT !.raised = (t = "fetch")]

\* self.db once an entry point has run up to its first await
db_after(after) == IF after.pc = "initialize_db" THEN 1 ELSE db

\* the response a step of the fetch endpoint's coroutine sends, if it is its last
Respond(t, after, d, data) ==
    IF t = "fetch" /\ after.pc = "idle" THEN FetchResponse(d, data) ELSE req

\* lifespan startup of main-discord.py: initialize_db() has succeeded (the
\* application does not start otherwise), then discord_scheduler.start_scheduler()
StartScheduler ==
    /\ db' = 1
    /\ scheduler' = start_scheduler(scheduler)
    /\ UNCHANGED <<trading_vars, req, collection, tasks, grouped>>

\* lifespan shutdown: discord_scheduler.stop_scheduler().  The executor
\* cancels the job's coroutine; an insert it is waiting for is stored or not.
StopScheduler ==
    /\ scheduler' = stop_scheduler(scheduler)
    /\ IF scheduler.running /\ tasks["job"].pc # "idle"
       THEN /\ tasks' = [tasks EXCEPT !["job"] = Idle]
            /\ \/ UNCHANGED collection
               \/ /\ tasks["job"].pc = "insert"
                  /\ LET t == tasks["job"]
                     IN collection' = insert_one(collection,
                            filtered_messages(t.data[t.k], t.existing_ids))
       ELSE UNCHANGED <<collection, tasks>>
    /\ UNCHANGED <<trading_vars, req, grouped, db>>

\* a minute passes on a running scheduler
Tick ==
    /\ scheduler.running
    /\ scheduler.since < IntervalMinutes
    /\ scheduler' = [scheduler EXCEPT !.since = @ + 1]
    /\ UNCHANGED <<trading_vars, req, collection, tasks, grouped, db>>

\* the interval of a job of the running scheduler is over: _fetch_messages_job
\* is started, unless its previous run has not finished (max_instances is 1)
FireJob(d, data) ==
    /\ scheduler.running
    /\ \E i \in 1..Len(scheduler.jobs) :
          scheduler.since = scheduler.jobs[i].minutes
    /\ (d = "messages") <=> (data # NoData)
    /\ scheduler' = [scheduler EXCEPT !.since = 0]
    /\ tasks' = IF tasks["job"].pc = "idle"
                THEN [tasks EXCEPT !["job"] = Begin("job", d, data)]
                ELSE tasks
    /\ db' = IF tasks["job"].pc = "idle" THEN db_after(Begin("job", d, data)) ELSE db
    /\ UNCHANGED <<trading_vars, req, collection, grouped>>

\* run_job_now() is called, or a request to POST /discord/messages/fetch
\* arrives: the fetch, up to the first await of save_to_database
StartTask(t, d, data) ==
    /\ t # "job"
    /\ tasks[t].pc = "idle"
    /\ (d = "messages") <=> (data # NoData)
    /\ tasks' = [tasks EXCEPT ![t] = Begin(t, d, data)]
    /\ req' = Respond(t, Begin(t, d, data), d, data)
    /\ db' = db_after(Begin(t, d, data))
    /\ UNCHANGED <<trading_vars, scheduler, collection, grouped>>

\* `await self.initialize_db()` completes, or raises and save_to_database
\* returns False
InitializeDb(t, ok) ==
    /\ tasks[t].pc = "initialize_db"
    /\ LET after == IF ok THEN AtAggregate(tasks[t].data) ELSE Returned("False")
       IN /\ tasks' = [tasks EXCEPT ![t] = after]
          /\ req' = Respond(t, after, "messages", tasks[t].data)
    /\ UNCHANGED <<trading_vars, scheduler, collection, grouped, db>>

\* `await collection.aggregate(pipeline).to_list(1)` completes, or raises and
\* save_to_database returns False
Aggregate(t, ok) ==
    /\ tasks[t].pc = "aggregate"
    /\ LET existing_ids == aggregate(collection, new_message_ids(tasks[t].data))
           after == IF ok THEN AfterGroup(tasks[t], existing_ids, 1, 0)
                    ELSE Returned("False")
       IN /\ tasks' = [tasks EXCEPT ![t] = after]
          /\ req' = Respond(t, after, "messages", tasks[t].data)
    /\ UNCHANGED <<trading_vars, scheduler, collection, grouped, db>>

\* `await collection.insert_one(group_doc)` completes, or raises and
\* save_to_database returns False
Insert(t, ok) ==
    /\ tasks[t].pc = "insert"
    /\ LET c == tasks[t]
           after == IF ok THEN AfterGroup(c, c.existing_ids, c.k + 1, c.saved_groups + 1)
                    ELSE Returned("False")
       IN /\ collection' =
                IF ok
                THEN insert_one(collection, filtered_messages(c.data[c.k], c.existing_ids))
                ELSE collection
          /\ tasks' = [tasks EXCEPT ![t] = after]
          /\ req' = Respond(t, after, "messages", c.data)
    /\ UNCHANGED <<trading_vars, scheduler, grouped, db>>

\* fetch_discord_messages groups the messages it fetched:
\* message_groups = self._group_messages_by_time(top_10_messages)
GroupMessages(messages) ==
    /\ grouped' = [called |-> TRUE, messages |-> messages,
                   message_groups |-> _group_messages_by_time(messages)]
    /\ UNCHANGED <<trading_vars, req, scheduler, collection, tasks, db>>

Init ==
    /\ _instance = 1
    /\ heap = <<BlankService>>
    /\ base = [m \in Modules |-> IF m = "__main__" THEN 1 ELSE None]
    /\ services = [m \in Modules |->
                     [s \in ServiceNames |-> IF m = "__main__" THEN 1 ELSE None]]
    /\ mt5_initialized = FALSE
    /\ req = NoRequest
    /\ scheduler = NewScheduler
    /\ collection = EmptyBag
    /\ tasks = [t \in TaskNames |-> Idle]
    /\ grouped = NotGrouped
    /\ db = None

\* the OKX side of the trading app
Next ==
    \/ \E m \in Modules : LoadModule(m)
    \/ \E out \in ConnectOutcomes : Connect(out)
    \/ Shutdown
    \/ \E op \in Ops, hasId \in BOOLEAN, probe \in ProbeOutcomes :
          \E v \in Payloads(op) : Serve(op, hasId, probe, v)

Spec == Init /\ [][Next]_vars

\* the life cycle of the two venue connections and the health endpoint
HealthNext ==
    \/ \E m \in Modules : LoadModule(m)
    \/ \E out \in ConnectOutcomes : Connect(out)
    \/ Shutdown
    \/ \E ok \in BOOLEAN : ConnectMT5(ok)
    \/ ShutdownMT5
    \/ HealthCheck

HealthSpec == Init /\ [][HealthNext]_vars

\* the Discord app
DiscordNext ==
    \/ StartScheduler
    \/ StopScheduler
    \/ Tick
    \/ \E d \in DiscordOutcomes, data \in DataSet \cup {NoData} : FireJob(d, data)
    \/ \E t \in TaskNames, d \in DiscordOutcomes, data \in DataSet \cup {NoData} :
          StartTask(t, d, data)
    \/ \E t \in TaskNames, ok \in BOOLEAN : InitializeDb(t, ok)
    \/ \E t \in TaskNames, ok \in BOOLEAN : Aggregate(t, ok)
    \/ \E t \in TaskNames, ok \in BOOLEAN : Insert(t, ok)

DiscordSpec == Init /\ [][DiscordNext]_vars

\* the grouping of fetched messages
GroupNext == \E messages \in MessageLists : GroupMessages(messages)

GroupSpec == Init /\ [][GroupNext]_vars

-----------------------------------------------------------------------------
(* Properties *)

\* the request in req went through its service method and is answered
Answered(ops) == req.op \in ops /\ req.state = "done" /\ req.attempt >= 1

OrderOps == TradeOps \cup AlgoPlaceOps \cup AlgoEditOps

\* the request failed to send: the probe failed, the SDK call raised or was
\* not made, or its payload has no data
NotSent(conn, v) == ~conn \/ v.kind \in {"nocall", "raise", "empty", "nodata"}

\* C1: a place_order whose submission raised is retried: when it ends on a
\* submission that raised, it has made all the attempts of the retry policy.
C1_RaisedSubmissionIsRetried ==
    Answered({"place_order"}) /\ req.vendor.kind = "raise"
        => req.attempt = StopAfterAttempt

\* the three outcomes of a place_order, for an answer whose entry is complete
OutcomeClass(conn, v) ==
    IF NotSent(conn, v) THEN "not sent"
    ELSE IF v.entry.sCode = "0" THEN "succeeded"
    ELSE "rejected"

\* the vendor answers whose first entry, if any, carries sCode, sMsg and ordId
CompletePayloads ==
    {v \in OrderPayloads :
        v.kind = "data" => /\ v.entry.sCode # NoKey
                           /\ v.entry.sMsg # NoKey
                           /\ v.entry.id # NoKey}

\* C2: the (ord_id, s_code) pair of a place_order response tells the three
\* outcomes apart: no vendor answer of another outcome yields the same pair.
C2_OutcomesYieldDistinctPairs ==
    Answered({"place_order"}) /\ req.vendor \in CompletePayloads \cup {NoCall}
        => \A conn \in BOOLEAN, v \in CompletePayloads :
              OutcomeClass(conn, v) # OutcomeClass(req.conn, req.vendor)
                  => LET r == place_order(conn, 1, v).result
                     IN <<r.ord_id, r.s_code>>
                            # <<req.result.ord_id, req.result.s_code>>

\* C3: an order operation whose response is not a success is answered with
\* HTTP 400 and the s_msg of the response as detail.
C3_FailedOrderAnswers400 ==
    Answered(OrderOps) /\ ~success(req.result)
        => req.http.status = 400 /\ req.http.detail = req.result.s_msg

\* C4: a lookup that finds nothing is answered with HTTP 404.
C4_NothingFoundAnswers404 ==
    (\/ Answered(ItemOps) /\ req.result.item = NoKey
     \/ req.op = "fetch_discord_messages" /\ req.result.data = NoKey)
        => req.http.status = 404

\* C5: a list query whose probe failed or whose vendor call raised is answered
\* with HTTP 500.
C5_FailedListQueryAnswers500 ==
    Answered(ListOps) /\ (~req.conn \/ req.vendor.kind = "raise")
        => req.http.status = 500

\* C6: a retry-wrapped operation invokes the vendor call at most 3 times and,
\* when it could not send its request, returns a response with an s_code
\* other than "0".
C6_RetryWrappedEndsInTypedFailure ==
    Answered(RetryWrapped)
        => /\ req.calls <= StopAfterAttempt
           /\ NotSent(req.conn, req.vendor)
                  => "s_code" \in DOMAIN req.result /\ req.result.s_code # "0"

\* C7: an operation outside order placement invokes its vendor call at most
\* once per request and is never put to sleep for another attempt.
C7_NoRetryOutsidePlacement ==
    req.op \in Ops \ RetryWrapped
        => req.calls <= 1 /\ req.attempt <= 1 /\ req.state = "done"

\* a cancel_order whose single vendor call raised
C7_Witness ==
    /\ Answered({"cancel_order"})
    /\ req.vendor.kind = "raise"
    /\ req.calls = 1

\* C8: the result of a close that could not be sent, and its HTTP response,
\* differ from those of every close the venue answered with data.
C8_FailedCloseIsTellable ==
    Answered({"close_position"}) /\ NotSent(req.conn, req.vendor)
        => \A v \in {w \in ClosePayloads : w.kind = "data"} :
              LET ok == close_position(TRUE, 1, CloseRequest, v)
              IN req.result # ok.result /\ req.http # CloseEndpoint(ok)

\* the venue accepted the order: a good probe and a first entry with sCode "0"
Accepted == req.conn /\ req.vendor.kind = "data" /\ req.vendor.entry.sCode = "0"

\* the venue rejected the order: a first entry with another sCode
Rejected ==
    req.conn /\ req.vendor.kind = "data" /\ req.vendor.entry.sCode \notin {NoKey, "0"}

C10_OneSharedConnection ==
    /\ Len(heap) = 1
    /\ \A m \in Loaded : base[m] = _instance
    /\ \A m1 \in Loaded, m2 \in Loaded, s1 \in ServiceNames, s2 \in ServiceNames :
          /\ services[m1][s1] = services[m2][s2]
          /\ initialized(m1, s1) = initialized(m2, s2)
          /\ heap[services[m1][s1]].apis = heap[services[m2][s2]].apis

\* the service was constructed a second time and is connected
C10_Witness ==
    /\ Loaded = Modules
    /\ \A m \in Modules, s \in ServiceNames : initialized(m, s)

\* the scheduled job's coroutine was started by this step
JobStarted == tasks["job"].pc = "idle" /\ tasks'["job"].pc # "idle"

\* C11: the job store never holds more than one job; on a running scheduler
\* it holds exactly the fetch job, with its id and its interval of 1 minute,
\* also after start_scheduler was called again; the job's coroutine is started
\* only by a running scheduler when the interval is over, and none is running
\* once the scheduler is stopped.
C11_OneFetchJobUntilStopped ==
    /\ [](/\ Len(scheduler.jobs) <= 1
          /\ scheduler.running =>
                /\ Len(scheduler.jobs) = 1
                /\ scheduler.jobs[1].id = "discord_message_fetch"
                /\ scheduler.jobs[1].minutes = 1
          /\ ~scheduler.running => tasks["job"].pc = "idle")
    /\ [][JobStarted => scheduler.running /\ scheduler.since = 1]_vars

\* the scheduled job is running, inside save_to_database
C11_Witness == scheduler.running /\ tasks["job"].pc = "insert"

\* C12: a step that serves a request of an OKX service leaves the shared
\* connection object as it was: initialized, the credentials and the five
\* client references, and which object the services hold.
C12_ServingLeavesConnectionAlone ==
    [][req' # req => /\ heap' = heap
                      /\ _instance' = _instance
                      /\ base' = base
                      /\ services' = services]_vars

\* a request was served on a connected service whose probe failed
C12_Witness ==
    /\ Answered(Ops)
    /\ ~req.conn
    /\ heap[base[Serving]].initialized
    /\ heap[base[Serving]].apis["trade_api"] # None

\* C13: a fetch request without Discord credentials is answered with HTTP 400
\* and the detail "Missing required Discord credentials".
C13_MissingCredentialsAnswer400 ==
    req.op = "fetch_discord_messages" /\ req.vendor.kind = "missing_credentials"
        => /\ req.http.status = 400
           /\ req.http.detail = "Missing required Discord credentials"

C15_NotConnectedMakesNoCall ==
    Answered(TradeOps) /\ ~req.conn
        => /\ req.result = OKXTradeResponse("", "1", "Failed to connect to OKX API")
           /\ req.calls = 0
           /\ req.vendor = NoCall

\* a cancel or modify refused for a failed probe on an initialized service
C15_Witness ==
    /\ Answered({"cancel_order", "modify_order"})
    /\ ~req.conn
    /\ req.hasId
    /\ heap[base[Serving]].initialized

\* the fields of an OKXTradeResponse
IsTradeResponse(r) == DOMAIN r = {"ord_id", "s_code", "s_msg"}

\* C16: place_order, cancel_order and modify_order return an OKXTradeResponse
\* and raise nothing, for every answer of the vendor, also on clients that
\* are None.
C16_NoExceptionEscapes ==
    /\ Answered(TradeOps) => IsTradeResponse(req.result)
    /\ \A op \in TradeOps, conn \in BOOLEAN, client \in {None, 1},
          hasId \in BOOLEAN, v \in OrderPayloads :
            LET out == Body(op, conn, client, hasId, v)
            IN ~out.raised /\ IsTradeResponse(out.result)

\* a modify_order whose SDK call raised, answered with a response
C16_Witness ==
    /\ Answered({"modify_order"})
    /\ req.vendor.kind = "raise"
    /\ IsTradeResponse(req.result)

\* C17: a place_order request whose submission returned a payload with data
\* is not put to sleep for another attempt, and has made one submission.
C17_NoResubmissionAfterPayload ==
    req.op = "place_order" /\ req.vendor.kind = "data"
        => req.state = "done" /\ req.calls = 1

\* a place_order the venue rejected, submitted once
C17_Witness ==
    /\ Answered({"place_order"})
    /\ Rejected
    /\ req.calls = 1

\* C18: no message_id is stored in more than one document.
C18_NoMessageStoredTwice ==
    \A doc \in BagToSet(collection) :
        /\ CopiesIn(doc, collection) = 1
        /\ \A other \in BagToSet(collection) \ {doc} : doc \cap other = {}

\* the groups of a DiscordData that have a message not stored in coll
NewGroups(coll, data) ==
    {i \in 1..Len(data) : data[i] \ stored_ids(coll) # {}}

\* C19: save_to_database, run on the collection as it is, adds one document
\* per group that has a message not yet stored, holding exactly the group's
\* messages not yet stored, and nothing else; run again with the same
\* DiscordData it adds nothing.
C19_SaveInsertsOnlyNewMessages ==
    \A data \in DataSet :
        LET after == save_to_database(collection, data)
            docs == {data[i] \ stored_ids(collection) : i \in NewGroups(collection, data)}
        IN /\ after = collection (+) SetToBag(docs)
           /\ \A doc \in docs : doc \cap stored_ids(collection) = {}
           /\ BagCardinality(after)
                 = BagCardinality(collection) + Cardinality(NewGroups(collection, data))
           /\ save_to_database(after, data) = after

\* a save is about to insert a group without its messages already stored
C19_Witness ==
    \E t \in TaskNames :
        /\ tasks[t].pc = "insert"
        /\ tasks[t].data[tasks[t].k] \cap tasks[t].existing_ids # {}
        /\ tasks[t].data[tasks[t].k] \ tasks[t].existing_ids # {}

\* C20: when an insert raises, and save_to_database returns False, the call
\* has inserted no group document.
C20_FailedSaveInsertedNothing ==
    [][\A t \in TaskNames : Insert(t, FALSE) => tasks[t].saved_groups = 0]_vars

\* the timestamp of the input message with this id
TimestampOf(message_id) == grouped.messages[message_id].timestamp

\* C22: two messages of one group have timestamps at most 5 minutes apart.
C22_GroupSpansFiveMinutes ==
    \A g \in 1..Len(grouped.message_groups) :
        LET ms == grouped.message_groups[g].messages
        IN \A a, b \in 1..Len(ms) :
              total_seconds(TimestampOf(ms[a]), TimestampOf(ms[b])) <= 5 * 60

\* the message ids of all groups, in the order of the groups
RECURSIVE Flatten(_)
Flatten(groups) ==
    IF groups = <<>> THEN <<>>
    ELSE groups[1].messages \o Flatten(Tail(groups))

\* C23: the groups partition the input: the messages of the groups, read
\* group after group, are the input messages in input order, each once; no
\* group is empty; the group ids are 1..n in order; no input, no groups.
C23_GroupsPartitionInput ==
    LET groups == grouped.message_groups
    IN /\ Flatten(groups) = [i \in 1..Len(grouped.messages) |-> grouped.messages[i].id]
       /\ \A g \in 1..Len(groups) :
             /\ groups[g].messages # <<>>
             /\ groups[g].group_id = g
       /\ grouped.messages = <<>> => groups = <<>>

\* a grouping that made several groups, one of them with several messages
C23_Witness ==
    /\ grouped.called
    /\ Len(grouped.message_groups) >= 2
    /\ \E g \in 1..Len(grouped.message_groups) :
          Len(grouped.message_groups[g].messages) >= 2

\* save_to_database of coroutine t ends in this step with an exception caught
SaveRaised(t) ==
    InitializeDb(t, FALSE) \/ Aggregate(t, FALSE) \/ Insert(t, FALSE)

\* save_to_database of coroutine t ends in this step without an exception
SaveCompleted(t) ==
    /\ Aggregate(t, TRUE) \/ Insert(t, TRUE)
    /\ tasks'[t].pc = "idle"

\* C21: a save_to_database that ends without an exception returns True, also
\* when it inserted no group; one that ends on an exception, a failed lazy
\* initialize_db included, returns False; and it returns False in no other case.
C21_SaveReturnsTrueUnlessRaised ==
    [][\A t \in TaskNames :
          /\ SaveCompleted(t) => tasks'[t].saved = "True"
          /\ SaveRaised(t) => tasks'[t].saved = "False"
          /\ tasks[t].pc # "idle" /\ tasks'[t].saved = "False" => SaveRaised(t)]_vars

\* two callers were answered True and the collection holds one document: a
\* call that inserted no group returned True (every insert adds a document)
C21_Witness ==
    /\ BagCardinality(collection) = 1
    /\ \E t, u \in TaskNames :
          /\ t # u
          /\ tasks[t].saved = "True"
          /\ tasks[u].saved = "True"

\* the scheduled job ends in this step after a fetch without data or a save
\* that returned False
JobRunFailed ==
    \/ /\ tasks["job"].pc = "idle"
       /\ \E d \in DiscordOutcomes \ {"messages"} : FireJob(d, NoData)
    \/ SaveRaised("job")

\* C24: the scheduled job never ends by raising; it is inside save_to_database
\* only with the DiscordData its fetch returned in a run started by the
\* scheduler; and a run that failed leaves the job finished and the scheduler
\* running with the job in its store, so that the next firing starts it.
C24_JobFailureIsContained ==
    /\ [](/\ ~tasks["job"].raised
          /\ tasks["job"].pc # "idle" => tasks["job"].data \in DataSet)
    /\ [][JobStarted => \E data \in DataSet : FireJob("messages", data)]_vars
    /\ [][JobRunFailed => /\ tasks'["job"].pc = "idle"
                          /\ scheduler'.running
                          /\ scheduler'.jobs = <<FetchJob>>]_vars

\* the job's save returned False and the next firing of the job is due
C24_Witness ==
    /\ tasks["job"].pc = "idle"
    /\ tasks["job"].saved = "False"
    /\ scheduler.running
    /\ scheduler.since = IntervalMinutes
    /\ scheduler.jobs = <<FetchJob>>

====
